---- MODULE Spec2Model ----
(***************************************************************************)
(* A model of the LipReading training driver (src/scripts/train.py) and of *)
(* the encoder / attention decoder (src/models/lipreader/better_model.py). *)
(*                                                                         *)
(* Five state machines share the module:                                   *)
(*   Spec      one run of train(): _get_datasets, the three DataLoaders,   *)
(*             _init_models.                                               *)
(*   SpecLoop  the epoch loop of train() (lines 177-210), entered with an  *)
(*             encoder and a decoding step taken as given.                 *)
(*   SpecEnc   one call of VideoEncoder.forward.                           *)
(*   SpecDec   one call of CharDecoder.forward, statement by statement.    *)
(*   SpecAttn  the attention of CharDecoder.forward (lines 111, 123-132)   *)
(*             on arbitrary finite logits, the recurrent step of line 120  *)
(*             taken to return the hidden state its comment documents.     *)
(* Tensors are sequences (1-based here, 0-based in the source).            *)
(***************************************************************************)
EXTENDS Integers, Sequences, FiniteSets, TLC

VARIABLES
  \* ---- train(): data and models (Spec)
  pc,               \* position in train()
  videos,           \* the list of video ids of _get_datasets
  train_split,      \* numerator of the train fraction, over Den
  train_dataset, val_dataset, test_dataset,
  train_loader, val_loader, test_loader,
  \* ---- train(): the epoch loop (SpecLoop)
  lpc, i, num_epochs, correct, count, val_cer, test_cer,
  avg_decoder_loss, avg_ctc_loss,
  val_cers, test_cers, train_decoder_losses, train_ctc_losses,
  \* ---- VideoEncoder.forward (SpecEnc)
  epc, frames, frame_lens, enc, permutation_index, restoration_indices,
  hidden_states, final_state,
  \* ---- CharDecoder.forward (SpecDec, SpecAttn)
  dpc, dec, char, previous_state, encoder_lens, encoder_hidden_states,
  encoder_mask, embedded_char, attn_logits, attn_weights, context

drvVars  == <<pc, videos, train_split, train_dataset, val_dataset, test_dataset,
              train_loader, val_loader, test_loader>>
loopVars == <<lpc, i, num_epochs, correct, count, val_cer, test_cer,
              avg_decoder_loss, avg_ctc_loss,
              val_cers, test_cers, train_decoder_losses, train_ctc_losses>>
encVars  == <<epc, frames, frame_lens, enc, permutation_index, restoration_indices,
              hidden_states, final_state>>
decVars  == <<dpc, dec, char, previous_state, encoder_lens, encoder_hidden_states,
              encoder_mask, embedded_char, attn_logits, attn_weights, context>>
vars     == <<drvVars, loopVars, encVars, decVars>>

\* A variable the running state machine does not use.
None == "none"

drvIdle  == /\ pc = None /\ videos = None /\ train_split = None
            /\ train_dataset = None /\ val_dataset = None /\ test_dataset = None
            /\ train_loader = None /\ val_loader = None /\ test_loader = None
loopIdle == /\ lpc = None /\ i = None /\ num_epochs = None /\ correct = None
            /\ count = None /\ val_cer = None /\ test_cer = None
            /\ avg_decoder_loss = None /\ avg_ctc_loss = None
            /\ val_cers = None /\ test_cers = None
            /\ train_decoder_losses = None /\ train_ctc_losses = None
encIdle  == /\ epc = None /\ frames = None /\ frame_lens = None /\ enc = None
            /\ permutation_index = None /\ restoration_indices = None
            /\ hidden_states = None /\ final_state = None
decIdle  == /\ dpc = None /\ dec = None /\ char = None /\ previous_state = None
            /\ encoder_lens = None /\ encoder_hidden_states = None
            /\ encoder_mask = None /\ embedded_char = None
            /\ attn_logits = None /\ attn_weights = None /\ context = None

(***************************************************************************)
(* Bounds of the model.                                                    *)
(***************************************************************************)
MaxVideos == 4      \* dataset sizes 0..MaxVideos
FracBits  == 2      \* train_split ranges over multiples of 1 / 2^FracBits
MaxCount  == 2      \* valid characters counted by one evaluation
MaxBatch  == 3      \* samples of a batch
MaxLayers == 2      \* recurrent layers
MaxTime   == 2      \* encoder timesteps seen by the decoding step
MaxAttnBatch == 2   \* samples of a batch whose attention weights are computed

(***************************************************************************)
(* Python arithmetic and sequence operations.                              *)
(***************************************************************************)
RECURSIVE Pow2(_)
Pow2(k) == IF k = 0 THEN 1 ELSE 2 * Pow2(k - 1)

\* Train fractions are p / Den.  Den is a power of two, so p / Den, 1.0 - p / Den
\* and their products with a small integer are exact in binary floating point and
\* the float expressions of lines 59-60 are computed here without rounding error.
Den == Pow2(FracBits)

\* floor(a / b), b > 0
FloorDiv(a, b) == IF a >= 0 THEN a \div b ELSE -(((-a) + b - 1) \div b)

\* int(a / b): truncation toward zero, b > 0
IntTrunc(a, b) == IF a >= 0 THEN a \div b ELSE -((-a) \div b)

\* round(a / b): Python 3 rounds to the nearest integer, ties to the even one
PyRound(a, b) ==
  LET q == FloorDiv(a, b)
      r == a - q * b
  IN  IF 2 * r < b THEN q
      ELSE IF 2 * r > b THEN q + 1
      ELSE IF q % 2 = 0 THEN q ELSE q + 1

\* The index k of s[k] as Python normalises a slice bound
SliceBound(k, len) ==
  LET k1 == IF k < 0 THEN k + len ELSE k
  IN  IF k1 < 0 THEN 0 ELSE IF k1 > len THEN len ELSE k1

\* s[lo:hi]
PySlice(s, lo, hi) ==
  LET a == SliceBound(lo, Len(s))
      b == SliceBound(hi, Len(s))
  IN  IF a < b THEN [k \in 1..(b - a) |-> s[a + k]] ELSE <<>>

Range(s) == {s[k] : k \in DOMAIN s}

Perms(n) == {p \in [1..n -> 1..n] : \A a, b \in 1..n : a # b => p[a] # p[b]}

(***************************************************************************)
(* _get_datasets: the split of the video list (train.py 48-81).            *)
(***************************************************************************)
\* line 59: int(train_split * len(videos))
TrainSize(p, n) == IntTrunc(p * n, Den)

\* line 60: round(len(videos) * (1.0 - train_split))
ValTestSize(p, n) == PyRound(n * (Den - p), Den)

\* line 61: the assertion on the sizes
SizeCheck(p, n) == TrainSize(p, n) + ValTestSize(p, n) = n

\* line 62: train_size + val_test_size // 2
ValSize(p, n) == TrainSize(p, n) + FloorDiv(ValTestSize(p, n), 2)

\* lines 65-71: the three datasets hold the three slices of the shuffled list
TrainPart(vs, p) == PySlice(vs, 0, TrainSize(p, Len(vs)))
ValPart(vs, p)   == PySlice(vs, TrainSize(p, Len(vs)), ValSize(p, Len(vs)))
TestPart(vs, p)  == PySlice(vs, ValSize(p, Len(vs)), Len(vs))

\* FrameCaptionDataset / FrameCaptionSentenceDataset over a list of video ids
FrameCaptionDataset(vs) == [videos |-> vs]

\* torch.utils.data.DataLoader over a dataset
DataLoader(ds) == [dataset |-> ds]

Samples(loader) == Range(loader.dataset.videos)

\* The fractions tried: from -1 to 2 in steps of 1 / Den
TrainSplits == (-Den)..(2 * Den)

\* _get_datasets as called on line 167
GetDatasets ==
  /\ pc = "get_datasets"
  /\ IF Len(videos) = 0
       THEN \* line 51
            /\ pc' = "AssertionError_no_videos"
            /\ UNCHANGED <<videos, train_dataset, val_dataset, test_dataset>>
       ELSE \E sh \in Perms(Len(videos)) :     \* lines 52-56
              LET shuffled == [k \in 1..Len(videos) |-> videos[sh[k]]]
              IN  /\ videos' = shuffled
                  /\ IF ~SizeCheck(train_split, Len(videos))
                       THEN \* line 61
                            /\ pc' = "AssertionError_split"
                            /\ UNCHANGED <<train_dataset, val_dataset, test_dataset>>
                       ELSE /\ train_dataset' = FrameCaptionDataset(TrainPart(shuffled, train_split))
                            /\ val_dataset' = FrameCaptionDataset(ValPart(shuffled, train_split))
                            /\ test_dataset' = FrameCaptionDataset(TestPart(shuffled, train_split))
                            /\ pc' = "loaders"
  /\ UNCHANGED <<train_split, train_loader, val_loader, test_loader>>
  /\ UNCHANGED <<loopVars, encVars, decVars>>

\* train.py 168-170
BuildLoaders ==
  /\ pc = "loaders"
  /\ train_loader' = DataLoader(train_dataset)
  /\ val_loader' = DataLoader(train_dataset)
  /\ test_loader' = DataLoader(test_dataset)
  /\ pc' = "init_models"
  /\ UNCHANGED <<videos, train_split, train_dataset, val_dataset, test_dataset>>
  /\ UNCHANGED <<loopVars, encVars, decVars>>

(***************************************************************************)
(* _init_models (train.py 83-102) against the model module.                *)
(***************************************************************************)
\* The parameters VideoEncoder.__init__ accepts (better_model.py 14-15)
VideoEncoderParams ==
  {"frame_dim", "hidden_size", "rnn_type", "num_layers", "bidirectional", "rnn_dropout"}

\* The arguments _init_models passes to VideoEncoder (train.py 96-98)
VideoEncoderArgs ==
  {"frame_dim", "hidden_size", "rnn_type", "num_layers", "bidirectional", "rnn_dropout",
   "enable_ctc", "vocab_size", "char2idx"}

\* The attributes self holds when line 24 reads self.frame_dim (lines 18-22)
VideoEncoderAttrs ==
  {"hidden_size", "rnn_type", "num_layers", "bidirectional", "rnn_dropout"}

\* The classes better_model.py defines
ModelModuleNames == {"VideoEncoder", "CharDecoder"}

\* What _init_models ends in: the first statement that raises decides
InitModelsOutcome ==
  IF ~(VideoEncoderArgs \subseteq VideoEncoderParams) THEN "TypeError"
  ELSE IF "frame_dim" \notin VideoEncoderAttrs THEN "AttributeError"
  ELSE IF "CharDecodingStep" \notin ModelModuleNames THEN "AttributeError"
  ELSE "epochs"

\* train.py 173-174
InitModels ==
  /\ pc = "init_models"
  /\ pc' = InitModelsOutcome
  /\ UNCHANGED <<videos, train_split, train_dataset, val_dataset, test_dataset,
                 train_loader, val_loader, test_loader>>
  /\ UNCHANGED <<loopVars, encVars, decVars>>

\* train() is entered with the sorted glob result and a train fraction
Init ==
  /\ pc = "get_datasets"
  /\ \E n \in 0..MaxVideos : videos = [k \in 1..n |-> k]
  /\ train_split \in TrainSplits
  /\ train_dataset = None /\ val_dataset = None /\ test_dataset = None
  /\ train_loader = None /\ val_loader = None /\ test_loader = None
  /\ loopIdle /\ encIdle /\ decIdle

Next == GetDatasets \/ BuildLoaders \/ InitModels

Spec == Init /\ [][Next]_vars

(***************************************************************************)
(* Properties of one run of train() (Spec).                                *)
(***************************************************************************)
Disjoint(a, b) == Range(a) \cap Range(b) = {}

Abs(x) == IF x < 0 THEN -x ELSE x

SplitAccepted == pc \in {"loaders", "init_models", "TypeError", "AttributeError", "epochs"}

PartitionOK ==
  LET tr == train_dataset.videos
      va == val_dataset.videos
      te == test_dataset.videos
  IN  /\ Disjoint(tr, va) /\ Disjoint(tr, te) /\ Disjoint(va, te)
      /\ Range(tr) \cup Range(va) \cup Range(te) = Range(videos)
      /\ Len(tr) + Len(va) + Len(te) = Len(videos)
      /\ Len(tr) = TrainSize(train_split, Len(videos))
      /\ Abs(Len(va) - Len(te)) <= 1

\* C6: whenever _get_datasets passes its size checks, the train, validation and
\* test partitions are pairwise disjoint, cover the whole video list, the train
\* partition has int(train_split * n) samples and validation and test differ in
\* size by at most one.
C6_PartitionWheneverAccepted == SplitAccepted => PartitionOK

\* The same for train fractions between 0 and 1 (holds; not the claim as stated).
C6_PartitionForUnitFractions ==
  (SplitAccepted /\ train_split \in 0..Den) => PartitionOK

\* A proper fraction with a non-empty train and test partition
C6_UnitFractionReached ==
  /\ SplitAccepted /\ train_split \in 1..(Den - 1)
  /\ Len(train_dataset.videos) >= 2 /\ Len(test_dataset.videos) >= 1

\* C7: the validation evaluation of every epoch iterates over samples of the
\* validation partition and over no sample of the training partition; the
\* evaluation iterates over val_loader, so this is a statement about the
\* samples val_loader serves.
C7_ValLoaderServesValidationPartition ==
  (pc \in {"init_models", "TypeError", "AttributeError", "epochs"}) =>
    /\ Samples(val_loader) \subseteq Range(val_dataset.videos)
    /\ Samples(val_loader) \cap Range(train_dataset.videos) = {}

\* C9: a run on a non-empty dataset with an accepted split gets through model
\* construction and the epochs to the run summary and does not end in an error
\* before it.
C9_NoErrorBeforeSummary ==
  SplitAccepted => pc \notin {"TypeError", "AttributeError"}

\* C10: the size check of _get_datasets rejects no dataset of n >= 1 videos with a
\* train fraction between 0 and 1.
C10_SizeCheckNeverRejects ==
  ~(pc = "AssertionError_split" /\ Len(videos) >= 1 /\ train_split \in 0..Den)

(***************************************************************************)
(* The epoch loop of train() (train.py 177-210).                           *)
(***************************************************************************)
\* _train.eval(...) returns (decoder_loss, correct, count): count valid reference
\* characters, correct of them predicted correctly; count = 0 on an empty loader.
EvalOutcomes == {<<c, n>> : c \in 0..MaxCount, n \in 0..MaxCount} \cap
                {o \in (0..MaxCount) \X (0..MaxCount) : o[1] <= o[2]}

\* correct / count: the accuracy, not the error rate
CER_Accuracy(c, n) == <<c, n>>

\* lines 185, 195: (count - correct).float() / count, kept as the fraction
\* <<numerator, denominator>>; denominator 0 is the tensor division's nan
CER(c, n) == <<n - c, n>>

IsZero(r)  == r[2] > 0 /\ r[1] = 0
IsOne(r)   == r[2] > 0 /\ r[1] = r[2]
InUnit(r)  == r[2] > 0 /\ 0 <= r[1] /\ r[1] <= r[2]

\* The average losses _train.train returns
Losses == {1, 2}

\* The average CTC loss _train.train returns: a number, or a list of numbers
\* (self_refs counts the references to the list itself among its items)
CtcLosses == {[kind |-> k, items |-> <<v>>, self_refs |-> 0] :
                k \in {"float", "list"}, v \in Losses}

\* The epoch counts tried
EpochCounts == {1, 2}

\* lines 183-185
EvalVal ==
  /\ lpc = "loop" /\ i < num_epochs
  /\ \E o \in EvalOutcomes :
       /\ correct' = o[1] /\ count' = o[2]
       /\ val_cer' = CER(o[1], o[2])
  /\ lpc' = "train"
  /\ UNCHANGED <<i, num_epochs, test_cer, avg_decoder_loss, avg_ctc_loss,
                 val_cers, test_cers, train_decoder_losses, train_ctc_losses>>
  /\ UNCHANGED <<drvVars, encVars, decVars>>

\* lines 187-192
Train ==
  /\ lpc = "train"
  /\ avg_decoder_loss' \in Losses
  /\ avg_ctc_loss' \in CtcLosses
  /\ lpc' = "eval_test"
  /\ UNCHANGED <<i, num_epochs, correct, count, val_cer, test_cer,
                 val_cers, test_cers, train_decoder_losses, train_ctc_losses>>
  /\ UNCHANGED <<drvVars, encVars, decVars>>

\* lines 194-195
EvalTest ==
  /\ lpc = "eval_test"
  /\ \E o \in EvalOutcomes :
       /\ correct' = o[1] /\ count' = o[2]
       /\ test_cer' = CER(o[1], o[2])
  /\ lpc' = "append"
  /\ UNCHANGED <<i, num_epochs, val_cer, avg_decoder_loss, avg_ctc_loss,
                 val_cers, test_cers, train_decoder_losses, train_ctc_losses>>
  /\ UNCHANGED <<drvVars, encVars, decVars>>

\* lines 197-200.  Line 200 calls avg_ctc_loss.append(avg_ctc_loss): a number has
\* no append (AttributeError); a list is appended to itself.
AppendStats ==
  /\ lpc = "append"
  /\ val_cers' = Append(val_cers, val_cer)
  /\ test_cers' = Append(test_cers, test_cer)
  /\ train_decoder_losses' = Append(train_decoder_losses, avg_decoder_loss)
  /\ IF avg_ctc_loss.kind = "list"
       THEN /\ avg_ctc_loss' = [avg_ctc_loss EXCEPT !.self_refs = @ + 1]
            /\ i' = i + 1
            /\ lpc' = "loop"
       ELSE /\ lpc' = "AttributeError"
            /\ UNCHANGED <<avg_ctc_loss, i>>
  /\ UNCHANGED <<num_epochs, correct, count, val_cer, test_cer,
                 avg_decoder_loss, train_ctc_losses>>
  /\ UNCHANGED <<drvVars, encVars, decVars>>

\* lines 201-210: np.min of an empty list raises ValueError
Summary ==
  /\ lpc = "loop" /\ i = num_epochs
  /\ lpc' = IF \/ Len(val_cers) = 0 \/ Len(test_cers) = 0
                 \/ Len(train_decoder_losses) = 0 \/ Len(train_ctc_losses) = 0
              THEN "ValueError" ELSE "summary_printed"
  /\ UNCHANGED <<i, num_epochs, correct, count, val_cer, test_cer,
                 avg_decoder_loss, avg_ctc_loss,
                 val_cers, test_cers, train_decoder_losses, train_ctc_losses>>
  /\ UNCHANGED <<drvVars, encVars, decVars>>

\* lines 177-182, for an epoch count >= 1
InitLoop ==
  /\ lpc = "loop" /\ i = 0 /\ num_epochs \in EpochCounts
  /\ correct = None /\ count = None /\ val_cer = None /\ test_cer = None
  /\ avg_decoder_loss = None /\ avg_ctc_loss = None
  /\ val_cers = <<>> /\ test_cers = <<>>
  /\ train_decoder_losses = <<>> /\ train_ctc_losses = <<>>
  /\ drvIdle /\ encIdle /\ decIdle

NextLoop == EvalVal \/ Train \/ EvalTest \/ AppendStats \/ Summary

SpecLoop == InitLoop /\ [][NextLoop]_vars

CerOK(cer) ==
  /\ InUnit(cer)
  /\ (correct = count => IsZero(cer))
  /\ (correct = 0 => IsOne(cer))

\* C5: the character error rate computed from an evaluation's (correct, count),
\* count > 0, is 0 when correct = count, 1 when correct = 0, and lies in [0, 1],
\* for the validation and for the test evaluation of every epoch.
C5_CerOfEvaluation ==
  /\ (lpc = "train" /\ count > 0) => CerOK(val_cer)
  /\ (lpc = "append" /\ count > 0) => CerOK(test_cer)

C5_AllWrongInSecondEpoch ==
  /\ lpc = "append" /\ i = 1 /\ count = MaxCount /\ correct = 0
  /\ IsOne(test_cer) /\ IsZero(val_cer)

\* C8: after k completed epochs train_decoder_losses and train_ctc_losses each hold
\* k entries, and no per-epoch loss value has been appended to itself.
C8_TwoLossSequences ==
  (lpc = "loop") =>
    /\ Len(train_decoder_losses) = i
    /\ Len(train_ctc_losses) = i
    /\ (i > 0 => avg_ctc_loss.self_refs = 0)

(***************************************************************************)
(* VideoEncoder.forward (better_model.py 28-75).                           *)
(*                                                                         *)
(* frames[b] is the frame sequence of sample b; every sample is its own    *)
(* value.  What the recurrent network computes for a sample depends on the *)
(* sample alone, so a computed entry is written as a tag naming the sample *)
(* and the place (timestep, layer, direction, feature) it was computed for.*)
(***************************************************************************)
FrameLens   == {1, 3, 5}         \* the frame counts tried
HiddenSizes == {1, 2, 8}         \* the hidden sizes tried
RnnTypes    == {"lstm", "rnn", "gru"}     \* supported_rnns, lines 6-10

Max(S) == CHOOSE x \in S : \A y \in S : y <= x

\* t.index_select(0, idx)
IndexSelect(t, idx) == [k \in 1..Len(idx) |-> t[idx[k]]]

\* t.index_select(1, idx)
IndexSelect1(t, idx) == [l \in 1..Len(t) |-> IndexSelect(t[l], idx)]

\* The index tensor of t.sort(0, descending=True): any order of the indices that
\* puts the values in descending order (the order of equal values is not fixed)
SortDescending(t) ==
  {p \in Perms(Len(t)) : \A a, b \in 1..Len(t) : a < b => t[p[a]] >= t[p[b]]}

\* The index tensor of t.sort(0, descending=False), t of distinct values
ArgSortAscending(t) ==
  [k \in 1..Len(t) |->
     CHOOSE m \in 1..Len(t) : Cardinality({a \in 1..Len(t) : t[a] < t[m]}) = k - 1]

\* s[start:stop:step], 0-based as in the source, for 0 <= start and step > 0
StridedSlice(s, start, stop, step) ==
  LET hi  == IF stop > Len(s) THEN Len(s) ELSE stop
      cnt == IF hi > start THEN (hi - start + step - 1) \div step ELSE 0
  IN  [m \in 1..cnt |-> s[start + (m - 1) * step + 1]]

\* torch.cat([a, b], dim=2) of two tensors of equal first two dimensions
CatDim2(a, b) == [l \in 1..Len(a) |-> [k \in 1..Len(a[l]) |-> a[l][k] \o b[l][k]]]

\* the first half of the entries joined with the second half
Cat_Halves(s) ==
  CatDim2(StridedSlice(s, 0, Len(s) \div 2, 1), StridedSlice(s, Len(s) \div 2, Len(s), 1))

\* _cat, lines 67-68
Cat(s) == CatDim2(StridedSlice(s, 0, Len(s), 2), StridedSlice(s, 1, Len(s), 2))

\* _cat_directions, lines 61-75: final_state is the sequence of its tensors,
\* (h, c) for an LSTM and the single h otherwise
CatDirections(fs) == [q \in 1..Len(fs) |-> Cat(fs[q])]

NumDir == IF enc.bidirectional THEN 2 ELSE 1

DirName(d) == IF d = 0 THEN "fwd" ELSE "bwd"

StateParts == IF enc.rnn_type = "lstm" THEN <<"h", "c">> ELSE <<"h">>

Pad == <<0, 0>>

\* sorted_frames, sorted_frame_lens of lines 35-36
SortedFrames    == IndexSelect(frames, permutation_index)
SortedFrameLens == IndexSelect(frame_lens, permutation_index)

\* lines 38-46: the hidden states of the packed batch, padded to its longest
\* sequence: row k holds what the network computed for the sample in row k
PaddedHiddenStates ==
  [k \in 1..Len(SortedFrames) |->
     [t \in 1..Max(Range(SortedFrameLens)) |->
        IF t <= SortedFrameLens[k] THEN <<SortedFrames[k], t>> ELSE Pad]]

\* line 43: the final state of torch's recurrent network: entry
\* layer * num_directions + direction (0-based) is that layer's and direction's
\* last state, one row of hidden_size features per batch row
RnnFinalState ==
  [q \in 1..Len(StateParts) |->
     [x \in 1..(enc.num_layers * NumDir) |->
        [k \in 1..Len(SortedFrames) |->
           [f \in 1..enc.hidden_size |->
              [part |-> StateParts[q], sample |-> SortedFrames[k],
               layer |-> ((x - 1) \div NumDir) + 1,
               dir |-> DirName((x - 1) % NumDir), feature |-> f]]]]]

\* sort_batch_by_length, lines 35-36
SortBatch ==
  /\ epc = "sort"
  /\ \E p \in SortDescending(frame_lens) :
       /\ permutation_index' = p
       /\ restoration_indices' = ArgSortAscending(p)
  /\ epc' = "rnn"
  /\ UNCHANGED <<frames, frame_lens, enc, hidden_states, final_state>>
  /\ UNCHANGED <<drvVars, loopVars, decVars>>

\* lines 38-46
RunRnn ==
  /\ epc = "rnn"
  /\ hidden_states' = PaddedHiddenStates
  /\ final_state' = RnnFinalState
  /\ epc' = "cat"
  /\ UNCHANGED <<frames, frame_lens, enc, permutation_index, restoration_indices>>
  /\ UNCHANGED <<drvVars, loopVars, decVars>>

\* lines 49-50
MergeDirections ==
  /\ epc = "cat"
  /\ final_state' = IF enc.bidirectional THEN CatDirections(final_state) ELSE final_state
  /\ epc' = "restore"
  /\ UNCHANGED <<frames, frame_lens, enc, permutation_index, restoration_indices,
                 hidden_states>>
  /\ UNCHANGED <<drvVars, loopVars, decVars>>

\* rows selected by the sort permutation, not by its inverse
RestoredHiddenStates_ByPermutation == IndexSelect(hidden_states, permutation_index)

\* line 52
RestoredHiddenStates == IndexSelect(hidden_states, restoration_indices)

\* lines 53-57
RestoredFinalState ==
  [q \in 1..Len(final_state) |-> IndexSelect1(final_state[q], restoration_indices)]

\* lines 52-59
Restore ==
  /\ epc = "restore"
  /\ hidden_states' = RestoredHiddenStates
  /\ final_state' = RestoredFinalState
  /\ epc' = "done"
  /\ UNCHANGED <<frames, frame_lens, enc, permutation_index, restoration_indices>>
  /\ UNCHANGED <<drvVars, loopVars, decVars>>

\* A call of forward on a non-empty batch, on an encoder configured as
\* __init__ (lines 14-26) means to configure it
InitEnc ==
  /\ epc = "sort"
  /\ \E b \in 1..MaxBatch :
       /\ frames = [k \in 1..b |-> k]
       /\ frame_lens \in [1..b -> FrameLens]
  /\ enc \in [rnn_type : RnnTypes, num_layers : 1..MaxLayers,
              bidirectional : BOOLEAN, hidden_size : HiddenSizes]
  /\ permutation_index = None /\ restoration_indices = None
  /\ hidden_states = None /\ final_state = None
  /\ drvIdle /\ loopIdle /\ decIdle

NextEnc == SortBatch \/ RunRnn \/ MergeDirections \/ Restore

SpecEnc == InitEnc /\ [][NextEnc]_vars

\* The hidden states computed for sample b, padded to the batch's longest sequence
HiddenStatesOf(b) ==
  [t \in 1..Max(Range(frame_lens)) |->
     IF t <= frame_lens[b] THEN <<frames[b], t>> ELSE Pad]

\* C1: forward restores the original batch order: restoration_indices is the
\* inverse of the sort permutation, row b of the returned hidden_states and
\* batch-column b of every tensor of the returned final state are what was
\* computed for input sample b, whatever the lengths (equal lengths included).
C1_OriginalOrderRestored ==
  (epc = "done") =>
    /\ \A k \in 1..Len(frames) :
         /\ permutation_index[restoration_indices[k]] = k
         /\ restoration_indices[permutation_index[k]] = k
    /\ Len(hidden_states) = Len(frames)
    /\ \A b \in 1..Len(frames) : hidden_states[b] = HiddenStatesOf(b)
    /\ Len(final_state) = Len(StateParts)
    /\ \A q \in 1..Len(final_state) : \A l \in 1..Len(final_state[q]) :
         /\ Len(final_state[q][l]) = Len(frames)
         /\ \A b \in 1..Len(frames) : \A f \in 1..Len(final_state[q][l][b]) :
              final_state[q][l][b][f].sample = frames[b]

C1_TiedLengthsCyclicSort ==
  /\ epc = "done" /\ enc.rnn_type = "lstm" /\ Len(frames) = 3
  /\ frame_lens[1] = frame_lens[3] /\ frame_lens[2] > frame_lens[1]
  /\ permutation_index = <<2, 3, 1>>
  /\ hidden_states[1] = HiddenStatesOf(1)

\* The row the sample of batch row k, layer l must have in a merged final state
MergedRow(q, l, smp) ==
  [f \in 1..(2 * enc.hidden_size) |->
     [part |-> StateParts[q], sample |-> smp, layer |-> l,
      dir |-> IF f <= enc.hidden_size THEN "fwd" ELSE "bwd",
      feature |-> IF f <= enc.hidden_size THEN f ELSE f - enc.hidden_size]]

\* C4: for a bidirectional encoder of L layers _cat_directions turns a final state
\* of shape (2L, batch, hidden) into one of shape (L, batch, 2 * hidden) whose
\* entry for layer l is that layer's forward final state followed, along the
\* features, by the same layer's backward final state; for an LSTM both tensors
\* of the pair are mapped so.
C4_DirectionsMergedPerLayer ==
  (epc \in {"restore", "done"} /\ enc.bidirectional) =>
    /\ Len(final_state) = Len(StateParts)
    /\ \A q \in 1..Len(final_state) :
         /\ Len(final_state[q]) = enc.num_layers
         /\ \A l \in 1..enc.num_layers :
              /\ Len(final_state[q][l]) = Len(frames)
              /\ \A k \in 1..Len(frames) :
                   final_state[q][l][k] =
                     MergedRow(q, l, IF epc = "done" THEN frames[k]
                                     ELSE frames[permutation_index[k]])

C4_TwoLayerLstmLengths53 ==
  /\ epc = "done" /\ enc.bidirectional /\ enc.rnn_type = "lstm"
  /\ enc.num_layers = 2 /\ enc.hidden_size = 8
  /\ frame_lens = <<5, 3>>
  /\ Len(final_state) = 2 /\ Len(final_state[2]) = 2
  /\ Len(final_state[2][2]) = 2 /\ Len(final_state[2][2][2]) = 16

(***************************************************************************)
(* CharDecoder (better_model.py 77-138).  A tensor of which only the shape *)
(* matters is its shape, a sequence of sizes.                              *)
(***************************************************************************)
CharDims    == {1, 3}            \* the character embedding sizes tried
OutputSizes == {4}               \* the vocabulary sizes tried
DecHiddenSizes == {1, 2}         \* the encoder hidden sizes tried

\* CharDecoder.__init__, lines 81-87, on an encoder configuration e
DecoderOf(e, cd, os) ==
  [hidden_size |-> e.hidden_size * (IF e.bidirectional THEN 2 ELSE 1),
   rnn_type    |-> e.rnn_type,
   num_layers  |-> e.num_layers,
   char_dim    |-> cd,
   output_size |-> os]

DecoderConfigs ==
  {DecoderOf(e, cd, os) :
     e \in [rnn_type : RnnTypes, num_layers : 1..MaxLayers,
            bidirectional : BOOLEAN, hidden_size : DecHiddenSizes],
     cd \in CharDims, os \in OutputSizes}

\* position encoder_lens[x] itself taken as valid
EncoderMask_Inclusive(b, t, lens) ==
  [x \in 1..b |-> [y \in 1..t |-> (y - 1) <= lens[x]]]

\* line 111: arange(en_seq_len).expand(batch_size, en_seq_len) < encoder_lens.unsqueeze(1)
EncoderMask(b, t, lens) ==
  [x \in 1..b |-> [y \in 1..t |-> (y - 1) < lens[x]]]

\* t.unsqueeze(dim) on a shape, dim 0-based
Unsqueeze(shape, dim) ==
  [k \in 1..(Len(shape) + 1) |->
     IF k <= dim THEN shape[k] ELSE IF k = dim + 1 THEN 1 ELSE shape[k - 1]]

\* t.squeeze(dim) on a shape, dim 0-based: drops the dimension when its size is 1
Squeeze(shape, dim) ==
  IF dim + 1 <= Len(shape) /\ shape[dim + 1] = 1
    THEN [k \in 1..(Len(shape) - 1) |-> IF k <= dim THEN shape[k] ELSE shape[k + 1]]
    ELSE shape

\* What torch's batch_first recurrent network accepts as (input, hx): a float
\* input of three dimensions (batch, seq, input_size) and a state
\* (num_layers, batch, hidden_size)
RnnAccepts(input, hx, cfg) ==
  /\ input.dtype = "float"
  /\ Len(input.shape) = 3
  /\ input.shape[3] = cfg.char_dim
  /\ hx = <<cfg.num_layers, input.shape[1], cfg.hidden_size>>

\* What torch.cat(tensors, dim) accepts: equal numbers of dimensions and equal
\* sizes in every dimension but dim (0-based)
CatAccepts(a, b, dim) ==
  /\ Len(a) = Len(b)
  /\ \A k \in 1..Len(a) : k # dim + 1 => a[k] = b[k]

\* lines 107-111
BuildMask ==
  /\ dpc = "mask"
  /\ encoder_mask' = EncoderMask(char.shape[1], encoder_hidden_states[2], encoder_lens)
  /\ dpc' = "embed"
  /\ UNCHANGED <<dec, char, previous_state, encoder_lens, encoder_hidden_states,
                 embedded_char, attn_logits, attn_weights, context>>
  /\ UNCHANGED <<drvVars, loopVars, encVars>>

\* lines 114-116
Embed ==
  /\ dpc = "embed"
  /\ embedded_char' = [shape |-> Append(char.shape, dec.char_dim), dtype |-> "float"]
  /\ char' = [char EXCEPT !.shape = Unsqueeze(@, 1)]
  /\ dpc' = "rnn"
  /\ UNCHANGED <<dec, previous_state, encoder_lens, encoder_hidden_states,
                 encoder_mask, attn_logits, attn_weights, context>>
  /\ UNCHANGED <<drvVars, loopVars, encVars>>

\* line 120: self.rnn(char, previous_state)
RnnStep ==
  /\ dpc = "rnn"
  /\ dpc' = IF RnnAccepts(char, previous_state, dec) THEN "attend" ELSE "RuntimeError"
  /\ UNCHANGED <<dec, char, previous_state, encoder_lens, encoder_hidden_states,
                 encoder_mask, embedded_char, attn_logits, attn_weights, context>>
  /\ UNCHANGED <<drvVars, loopVars, encVars>>

\* A call of forward with arguments of the shapes of its docstring (lines 101-106)
DecoderCall(batches, configs) ==
  /\ dpc = "mask"
  /\ dec \in configs
  /\ \E b \in batches, t \in 1..MaxTime :
       /\ char = [shape |-> <<b>>, dtype |-> "long"]
       /\ previous_state = <<dec.num_layers, b, dec.hidden_size>>
       /\ encoder_lens \in [1..b -> 0..t]
       /\ encoder_hidden_states = <<b, t, dec.hidden_size>>

InitDec ==
  /\ DecoderCall(1..MaxBatch, DecoderConfigs)
  /\ encoder_mask = None /\ embedded_char = None
  /\ attn_logits = None /\ attn_weights = None /\ context = None
  /\ drvIdle /\ loopIdle /\ encIdle

NextDec == BuildMask \/ Embed \/ RnnStep

SpecDec == InitDec /\ [][NextDec]_vars

\* C3: for every batch size B >= 1 and encoder length T >= 1, with arguments of the
\* documented shapes, every tensor operation of CharDecoder.forward is
\* shape-compatible and the step returns logits [B, output_size] and a state of
\* the shape of the previous state: no call ends in a shape error.
C3_EveryOperationShapeCompatible == dpc # "RuntimeError"

(***************************************************************************)
(* The attention of CharDecoder.forward (lines 111, 123-132), with the     *)
(* recurrent step taken to return the hidden state (batch, 1, hidden) that *)
(* the comment on line 118 documents.                                      *)
(***************************************************************************)
Logits == {0, 1}                 \* the attention logits tried

\* exp on the logits tried: positive and increasing
Exp2(x) == Pow2(x)

RECURSIVE SumSeq(_)
SumSeq(s) == IF Len(s) = 0 THEN 0 ELSE s[1] + SumSeq(Tail(s))

Float(m) == IF m THEN 1 ELSE 0

\* allennlp's masked_softmax(vector, mask, dim=-1) on one row:
\*   result = softmax(vector * mask); result = result * mask;
\*   result = result / (result.sum() + 1e-13)
\* Entry t is kept as <<numerator, denominator>> over the common factor
\* 1 / sum(exp(vector * mask)); the 1e-13 only enlarges the denominator.
MaskedSoftmaxRow(v, m) ==
  LET e == [t \in 1..Len(v) |-> Exp2(v[t] * Float(m[t]))]
      r == [t \in 1..Len(v) |-> e[t] * Float(m[t])]
  IN  [t \in 1..Len(v) |-> <<r[t], SumSeq(r)>>]

MaskedSoftmax(v, m) == [x \in 1..Len(v) |-> MaskedSoftmaxRow(v[x], m[x])]

\* lines 123-125: one logit per sample and encoder position
ScoreLogits ==
  /\ dpc = "embed"
  /\ attn_logits' \in [1..char.shape[1] -> [1..encoder_hidden_states[2] -> Logits]]
  /\ dpc' = "softmax"
  /\ UNCHANGED <<dec, char, previous_state, encoder_lens, encoder_hidden_states,
                 encoder_mask, embedded_char, attn_weights, context>>
  /\ UNCHANGED <<drvVars, loopVars, encVars>>

\* line 127
AttnWeights ==
  /\ dpc = "softmax"
  /\ attn_weights' = MaskedSoftmax(attn_logits, encoder_mask)
  /\ dpc' = "context"
  /\ UNCHANGED <<dec, char, previous_state, encoder_lens, encoder_hidden_states,
                 encoder_mask, embedded_char, attn_logits, context>>
  /\ UNCHANGED <<drvVars, loopVars, encVars>>

\* line 129: attn_weights.bmm(encoder_hidden_states).unsqueeze(dim=1); the context
\* of a sample is kept as the encoder positions that enter its weighted sum with
\* a weight other than zero
Context ==
  /\ dpc = "context"
  /\ context' =
       [shape |-> Unsqueeze(<<char.shape[1], 1, encoder_hidden_states[3]>>, 1),
        terms |-> [x \in 1..Len(attn_weights) |->
                     {t \in 1..Len(attn_weights[x]) : attn_weights[x][t][1] # 0}]]
  /\ dpc' = "combine"
  /\ UNCHANGED <<dec, char, previous_state, encoder_lens, encoder_hidden_states,
                 encoder_mask, embedded_char, attn_logits, attn_weights>>
  /\ UNCHANGED <<drvVars, loopVars, encVars>>

\* line 132: torch.cat([context, hidden_state.squeeze(dim=1)], dim=1)
Combine ==
  /\ dpc = "combine"
  /\ dpc' = IF CatAccepts(context.shape,
                          Squeeze(<<char.shape[1], 1, dec.hidden_size>>, 1), 1)
              THEN "project" ELSE "RuntimeError"
  /\ UNCHANGED <<dec, char, previous_state, encoder_lens, encoder_hidden_states,
                 encoder_mask, embedded_char, attn_logits, attn_weights, context>>
  /\ UNCHANGED <<drvVars, loopVars, encVars>>

AttnConfigs == {d \in DecoderConfigs : d.num_layers = 1 /\ d.rnn_type = "lstm"
                                        /\ d.hidden_size = 2 /\ d.char_dim = 3}

InitAttn ==
  /\ DecoderCall(1..MaxAttnBatch, AttnConfigs)
  /\ encoder_mask = None /\ embedded_char = None
  /\ attn_logits = None /\ attn_weights = None /\ context = None
  /\ drvIdle /\ loopIdle /\ encIdle

NextAttn == BuildMask \/ ScoreLogits \/ AttnWeights \/ Context \/ Combine

SpecAttn == InitAttn /\ [][NextAttn]_vars

Padded(x, t) == (t - 1) >= encoder_lens[x]

====
